---- MODULE Spec2Model ----
(***************************************************************************)
(* Model of code_execution_api_installer.py: the installation workflow of  *)
(* main(), the prerequisite probes and remediation installers, and the     *)
(* project materializer download_and_extract_project() with the scratch    *)
(* directory and the installation directory as file trees.                 *)
(*                                                                         *)
(* Names of files and folders are sequences of one-character strings,      *)
(* because os.path.commonprefix works character by character.              *)
(***************************************************************************)
EXTENDS Integers, Sequences, FiniteSets, TLC

VARIABLES
    pc,         \* position of the process in main() / __main__
    run,        \* number of the current launch of the installer
    admin,      \* outcome of is_admin() in this launch
    steps,      \* call/return events of the workflow steps of this launch
    prompts,    \* input() prompts the operator acknowledged in this launch
    dockerKey,  \* registry key SOFTWARE\Docker Inc.\Docker Desktop exists
    condaOk,    \* `conda --version` can run and exit 0
    vbs,        \* create_shortcut.vbs exists in the temporary directory
    call,       \* the last function main() called: what it met, what it returned
    archive,    \* the zip archive served at PROJECT_ZIP_URL
    dl,         \* the download_file() call looked at block by block
    scratch,    \* scratch directories that exist: mkdtemp id -> file tree
    install,    \* INSTALL_DIR: [exists, tree]
    mat,        \* state of the download_and_extract_project() call
    raised,     \* function whose exception reached the handler in __main__
    exit        \* how the process of this launch ended

vars == <<pc, run, admin, steps, prompts, dockerKey, condaOk, vbs, call,
          archive, dl, scratch, install, mat, raised, exit>>

machine == <<dockerKey, condaOk, vbs>>
files == <<scratch, install, mat>>
given == <<archive, dl>>

(***************************************************************************)
(* Bounds                                                                  *)
(***************************************************************************)
MaxRuns == 2

(***************************************************************************)
(* Names: sequences of characters                                          *)
(***************************************************************************)
Slash == "/"

\* "code-execution-api.zip", the file name of line 140
ZipName == <<"c","o","d","e","-","e","x","e","c","u","t","i","o","n","-",
             "a","p","i",".","z","i","p">>

Root == <<"r">>                 \* the archive's root folder
Compose == <<"d","c">>          \* docker-compose.yml
Reqs == <<"r","q">>             \* requirements.txt
Notes == <<"n","t">>            \* notes.txt, an operator's own file
App == <<"a","p","p">>          \* a source folder
Api == <<"a","p","i">>          \* another source folder
MainPy == <<"m">>               \* a source file

\* the characters of a path: components joined by "/"
RECURSIVE JoinPath(_)
JoinPath(comps) ==
    IF comps = << >> THEN << >>
    ELSE IF Len(comps) = 1 THEN Head(comps)
    ELSE Head(comps) \o <<Slash>> \o JoinPath(Tail(comps))

\* a directory entry of a zip file ends with "/"
DirName(comps) == JoinPath(comps) \o <<Slash>>

\* str.endswith('/')
EndsWithSlash(name) == Len(name) > 0 /\ name[Len(name)] = Slash

\* the components of a path, empty components dropped (as the OS resolves it)
RECURSIVE SplitPath(_, _, _)
SplitPath(name, cur, acc) ==
    IF name = << >> THEN (IF cur = << >> THEN acc ELSE Append(acc, cur))
    ELSE IF Head(name) = Slash
         THEN SplitPath(Tail(name), << >>, IF cur = << >> THEN acc ELSE Append(acc, cur))
         ELSE SplitPath(Tail(name), Append(cur, Head(name)), acc)

Components(name) == SplitPath(name, << >>, << >>)

IsPrefix(p, s) == Len(p) <= Len(s) /\ SubSeq(s, 1, Len(p)) = p

\* os.path.commonprefix: the longest character-wise prefix common to all the
\* names of the list, '' for the empty list
commonprefix(names) ==
    IF names = {} THEN << >>
    ELSE LET some == CHOOSE n \in names : TRUE
             common == {k \in 0..Len(some) :
                          \A n \in names : IsPrefix(SubSeq(some, 1, k), n)}
             best == CHOOSE k \in common : \A j \in common : j <= k
         IN SubSeq(some, 1, best)

(***************************************************************************)
(* File trees: a tree is a set of nodes [path, kind, data], the path being *)
(* the sequence of names from the top of the tree, the data of a file the  *)
(* sequence of its lines                                                   *)
(***************************************************************************)
FileNode(path, data) == [path |-> path, kind |-> "file", data |-> data]
DirNode(path) == [path |-> path, kind |-> "dir", data |-> << >>]

Exists(tree, path) == path = << >> \/ \E n \in tree : n.path = path
IsDir(tree, path) == path = << >> \/ \E n \in tree : n.path = path /\ n.kind = "dir"

\* the node at path and everything below it
Subtree(tree, path) == {n \in tree : IsPrefix(path, n.path)}

\* os.listdir
listdir(tree, path) ==
    {n.path[Len(path) + 1] : n \in {m \in tree : Len(m.path) > Len(path) /\ IsPrefix(path, m.path)}}

\* the nodes below `from`, seen from `to`
Rebase(nodes, from, to) ==
    {[n EXCEPT !.path = to \o SubSeq(n.path, Len(from) + 1, Len(n.path))] : n \in nodes}

\* shutil.rmtree / os.remove
Remove(tree, path) == tree \ Subtree(tree, path)

\* shutil.move(source, dest) of the nodes at `src` of `from` into `tree`:
\* into the folder when dest is an existing folder, else onto dest
shutil_move(tree, from, src, dest) ==
    LET real == IF dest # << >> /\ IsDir(tree, dest)
                THEN Append(dest, src[Len(src)]) ELSE dest
    IN Remove(tree, real) \cup Rebase(Subtree(from, src), src, real)

(***************************************************************************)
(* Zip archives: a sequence of entries [name, data], a name ending with    *)
(* "/" being a folder entry                                                *)
(***************************************************************************)
ZipDir(comps) == [name |-> DirName(comps), data |-> << >>]
ZipFile(comps, data) == [name |-> JoinPath(comps), data |-> data]

OldData == <<"old">> \* content of what is installed before the run
NewData == <<"new">> \* content of the files of the archive

\* as GitHub builds it: every folder has its entry, the root first
GitHubArchive ==
    << ZipDir(<<Root>>), ZipFile(<<Root, Compose>>, NewData),
       ZipFile(<<Root, Reqs>>, NewData), ZipDir(<<Root, App>>),
       ZipFile(<<Root, App, MainPy>>, NewData) >>

\* files only, no folder entries
FilesOnlyArchive ==
    << ZipFile(<<Root, Compose>>, NewData), ZipFile(<<Root, Reqs>>, NewData) >>

\* folder entries for the non-empty leaf folders only
LeafFolderArchive ==
    << ZipFile(<<Root, Reqs>>, NewData), ZipDir(<<Root, App>>),
       ZipFile(<<Root, App, Notes>>, NewData) >>

\* two folder entries, none for the root
SiblingFolderArchive ==
    << ZipFile(<<Root, Reqs>>, NewData), ZipDir(<<Root, App>>),
       ZipFile(<<Root, App, MainPy>>, NewData), ZipDir(<<Root, Api>>) >>

Archives == {GitHubArchive, FilesOnlyArchive, LeafFolderArchive,
             SiblingFolderArchive}

\* ZipFile.namelist()
namelist(zip) == {zip[i].name : i \in 1..Len(zip)}

\* line 154: the common prefix of the names of the folder entries
top_dir(zip) == commonprefix({name \in namelist(zip) : EndsWithSlash(name)})

\* the proper ancestors of a path
Ancestors(comps) == {SubSeq(comps, 1, k) : k \in 1..(Len(comps) - 1)}

\* ZipFile.extractall(): every entry under the target, parents made as needed
extractall(zip) ==
    UNION {LET comps == Components(zip[i].name)
           IN {DirNode(a) : a \in Ancestors(comps)} \cup
              {IF EndsWithSlash(zip[i].name) THEN DirNode(comps)
               ELSE FileNode(comps, zip[i].data)}
           : i \in 1..Len(zip)}

\* the tree the archive holds below its one top-level root folder
ArchiveRoot(zip) ==
    LET tree == extractall(zip)
        root == CHOOSE r \in listdir(tree, << >>) : TRUE
    IN Rebase(Subtree(tree, <<root>>) \ {DirNode(<<root>>)}, <<root>>, << >>)

(***************************************************************************)
(* Installation directories the installer may find                         *)
(***************************************************************************)
NoInstall == [exists |-> FALSE, tree |-> {}]

\* a stale installation with what the operator added: notes, and an entry
\* named as the root folder of the archive; its start_api.bat is an old one
StaleInstall ==
    [exists |-> TRUE,
     tree |-> {FileNode(<<Compose>>, OldData), FileNode(<<Notes>>, OldData),
               DirNode(<<App>>), FileNode(<<App, Notes>>, OldData),
               FileNode(<<Root>>, OldData),
               FileNode(<<<<"s","t","a","r","t","_","a","p","i",".","b","a","t">>>>,
                        OldData)}]

Installs == {NoInstall, StaleInstall}

(***************************************************************************)
(* The state after the installer is launched                               *)
(***************************************************************************)
NoCall == [fn |-> "none", met |-> "none", fetch |-> "none",
           exitcode |-> "none", ret |-> "none", listed |-> {}, cmds |-> << >>]

NoMaterialize ==
    [temp |-> 0, fetch |-> "none", top |-> << >>, todo |-> {}, moved |-> {},
     ret |-> "none", before |-> NoInstall]

\* no download_file() call is looked at
NoDownload ==
    [state |-> "idle", total |-> 0, blocksize |-> 0, sent |-> 0, blocknum |-> 0,
     read |-> 0, reports |-> << >>, attempts |-> 0, outcome |-> "none",
     ret |-> "none"]

Init ==
    /\ pc = "main"
    /\ run = 1
    /\ admin = "unknown"
    /\ steps = << >>
    /\ prompts = << >>
    /\ dockerKey \in BOOLEAN
    /\ condaOk \in BOOLEAN
    /\ vbs = FALSE
    /\ call = NoCall
    /\ archive \in Archives
    /\ dl = NoDownload
    /\ scratch = << >>
    /\ install \in Installs
    /\ mat = NoMaterialize
    /\ raised = "none"
    /\ exit = "none"

Call(step) == Append(steps, [step |-> step, ev |-> "call"])
Return(log, step) == Append(log, [step |-> step, ev |-> "return"])

\* the record of a call that one outcome of the environment decides
Met(fn, met, ret) == [NoCall EXCEPT !.fn = fn, !.met = met, !.ret = ret]

(***************************************************************************)
(* Privilege gate                                                          *)
(***************************************************************************)
\* is_admin(): what IsUserAnAdmin tells, False when the call raises
is_admin(outcome) == outcome = "yes"

\* lines 271-274 of main
IsAdmin ==
    /\ pc = "main"
    /\ \E outcome \in {"yes", "no", "error"} :
          /\ admin' = outcome
          /\ call' = Met("is_admin", outcome,
                         IF is_admin(outcome) THEN "true" ELSE "false")
          /\ pc' = IF is_admin(outcome) THEN "input_begin" ELSE "restart_as_admin"
    /\ UNCHANGED <<run, steps, prompts, machine, given, files, raised, exit>>

\* restart_as_admin() as it would be without the sys.exit(0) of line 33
restart_without_exit(outcome) ==
    IF outcome = "raise" THEN "raise" ELSE "return"

\* restart_as_admin(): what follows ShellExecuteW
restart_as_admin(outcome) ==
    IF outcome = "raise" THEN "raise" ELSE "sys_exit"

\* the process leaves through sys.exit(0); an exception of ShellExecuteW
\* reaches the handler of lines 326-328, which waits at input()
RestartAsAdmin ==
    /\ pc = "restart_as_admin"
    /\ \E outcome \in {"launched", "refused", "raise"} :
          LET next == restart_as_admin(outcome) IN
          /\ call' = Met("restart_as_admin", outcome, next)
          /\ pc' = CASE next = "raise" -> "except"
                     [] next = "sys_exit" -> "terminated"
                     [] OTHER -> "input_begin"
          /\ raised' = IF next = "raise" THEN "restart_as_admin" ELSE raised
          /\ exit' = IF next = "sys_exit" THEN "sys_exit" ELSE exit
    /\ UNCHANGED <<run, admin, steps, prompts, machine, given, files>>

\* line 280: input("Press Enter to begin installation...")
InputBegin ==
    /\ pc = "input_begin"
    /\ prompts' = Append(prompts, "begin")
    /\ pc' = "check_docker_installed"
    /\ UNCHANGED <<run, admin, steps, machine, call, given, files, raised,
                   exit>>

(***************************************************************************)
(* Prerequisite probes and remediation installers                          *)
(***************************************************************************)
\* what the registry lookup of line 69 can do on this machine
DockerLookups == IF dockerKey THEN {"found", "error"} ELSE {"absent", "error"}

\* check_docker_installed() as it would be if only a missing key meant
\* "not installed"
check_docker_fail_open(lookup) ==
    IF lookup = "absent" THEN "false" ELSE "true"

\* check_docker_installed(): True when the key opens, False on WindowsError
check_docker_installed(lookup) ==
    IF lookup = "found" THEN "true" ELSE "false"

\* what running `conda --version` can do on this machine
CondaRuns == IF condaOk THEN {"exit0", "raise"} ELSE {"nonzero", "raise"}

\* check_conda_installed(): returncode == 0, False on any exception
check_conda_installed(outcome) ==
    IF outcome = "exit0" THEN "true" ELSE "false"

\* a probe called from main: lines 283-287 and 290-294
\* main() as it would be if it remediated whatever the probe returned
ProbeAlwaysRemediates(fn, step, outcome, ret, installPc, nextPc) ==
    /\ call' = Met(fn, outcome, ret)
    /\ steps' = IF ret = "raise" THEN Call(step) ELSE Return(Call(step), step)
    /\ pc' = IF ret = "raise" THEN "except" ELSE installPc
    /\ raised' = IF ret = "raise" THEN step ELSE raised
    /\ UNCHANGED <<run, admin, prompts, machine, given, files, exit>>

Probe(fn, step, outcome, ret, installPc, nextPc) ==
    /\ call' = Met(fn, outcome, ret)
    /\ steps' = IF ret = "raise" THEN Call(step) ELSE Return(Call(step), step)
    /\ pc' = CASE ret = "raise" -> "except"
               [] ret = "true" -> nextPc
               [] OTHER -> installPc
    /\ raised' = IF ret = "raise" THEN step ELSE raised
    /\ UNCHANGED <<run, admin, prompts, machine, given, files, exit>>

CheckDockerInstalled ==
    /\ pc = "check_docker_installed"
    /\ \E lookup \in DockerLookups :
          Probe("check_docker_installed", "ProbeRuntime", lookup,
                check_docker_installed(lookup),
                "install_docker", "check_conda_installed")

CheckCondaInstalled ==
    /\ pc = "check_conda_installed"
    /\ \E outcome \in CondaRuns :
          Probe("check_conda_installed", "ProbeEnvManager", outcome,
                check_conda_installed(outcome),
                "install_miniconda", "download_and_extract_project")

\* install_docker() as it would be without the input() of line 94
install_docker_no_input(fetch, exitcode) ==
    IF fetch = "ok"
    THEN CASE exitcode = "zero" -> "return_true"
           [] exitcode = "nonzero" -> "return_false"
           [] OTHER -> "raise"
    ELSE "return_false"

\* install_docker(): what it does for the result of download_file and the
\* exit of the installer ("none" when the installer is not run)
install_docker(fetch, exitcode) ==
    IF fetch = "ok"
    THEN CASE exitcode = "zero" -> "return_true"
           [] exitcode = "nonzero" -> "input_then_return_false"
           [] OTHER -> "raise"
    ELSE "return_false"

\* install_miniconda(): the same shape, lines 114-132
install_miniconda(fetch, exitcode) ==
    IF fetch = "ok"
    THEN CASE exitcode = "zero" -> "return_true"
           [] exitcode = "nonzero" -> "input_then_return_false"
           [] OTHER -> "raise"
    ELSE "return_false"

\* the fetches and installer runs that can happen
Remediations ==
    {<<"failed", "none">>, <<"ok", "zero">>, <<"ok", "nonzero">>, <<"ok", "raise">>}

\* a remediation called from main (lines 285, 292); its value is not used
Remediate(fn, step, fetch, exitcode, does, inputPc, nextPc) ==
    /\ call' = [NoCall EXCEPT !.fn = fn, !.fetch = fetch, !.exitcode = exitcode,
                              !.ret = CASE does = "return_true" -> "true"
                                        [] does = "return_false" -> "false"
                                        [] does = "raise" -> "raise"
                                        [] OTHER -> "none"]
    /\ steps' = IF does \in {"return_true", "return_false"}
                THEN Return(Call(step), step) ELSE Call(step)
    /\ pc' = CASE does = "raise" -> "except"
               [] does = "input_then_return_false" -> inputPc
               [] OTHER -> nextPc
    /\ raised' = IF does = "raise" THEN step ELSE raised
    /\ UNCHANGED <<run, admin, prompts, given, files, exit>>

\* a successful installer leaves the prerequisite installed
InstallDocker ==
    /\ pc = "install_docker"
    /\ \E r \in Remediations :
          /\ Remediate("install_docker", "RemediateRuntime", r[1], r[2],
                       install_docker(r[1], r[2]),
                       "input_docker_manual", "check_conda_installed")
          /\ dockerKey' = (dockerKey \/ r[2] = "zero")
          /\ UNCHANGED <<condaOk, vbs>>

InstallMiniconda ==
    /\ pc = "install_miniconda"
    /\ \E r \in Remediations :
          /\ Remediate("install_miniconda", "RemediateEnvManager", r[1], r[2],
                       install_miniconda(r[1], r[2]),
                       "input_conda_manual", "download_and_extract_project")
          /\ condaOk' = (condaOk \/ r[2] = "zero")
          /\ UNCHANGED <<dockerKey, vbs>>

\* lines 94 and 131: the operator acknowledges, then the function returns False
InputManual(prompt, step, nextPc) ==
    /\ prompts' = Append(prompts, prompt)
    /\ call' = [call EXCEPT !.ret = "false"]
    /\ steps' = Return(steps, step)
    /\ pc' = nextPc
    /\ UNCHANGED <<run, admin, given, files, raised, exit>>

\* main() as it would be if it probed again after the manual installation
InputDockerManualThenProbe ==
    /\ pc = "input_docker_manual"
    /\ InputManual("docker_manual", "RemediateRuntime", "check_docker_installed")
    /\ dockerKey' \in {dockerKey, TRUE}
    /\ UNCHANGED <<condaOk, vbs>>

\* the operator may have installed the prerequisite by hand meanwhile
InputDockerManual ==
    /\ pc = "input_docker_manual"
    /\ InputManual("docker_manual", "RemediateRuntime", "check_conda_installed")
    /\ dockerKey' \in {dockerKey, TRUE}
    /\ UNCHANGED <<condaOk, vbs>>

InputCondaManual ==
    /\ pc = "input_conda_manual"
    /\ InputManual("conda_manual", "RemediateEnvManager",
                   "download_and_extract_project")
    /\ condaOk' \in {condaOk, TRUE}
    /\ UNCHANGED <<dockerKey, vbs>>

(***************************************************************************)
(* Project materializer: download_and_extract_project()                    *)
(***************************************************************************)
\* main() as it would be if it went on whatever the materializer returns
main_ignores_materialize(ret) == "create_conda_environment"

\* main() as it would be if it returned at once, without the input() of
\* line 299, when the materializer fails
main_returns_at_once(ret) ==
    IF ret = "true" THEN "create_conda_environment" ELSE "terminated"

\* line 297 of main: what follows the value the materializer returns
main_after_materialize(ret) ==
    IF ret = "true" THEN "create_conda_environment" ELSE "input_abort"

\* line 58: how one urlretrieve() call can end
Transfers == {"completed", "network", "filesystem", "protocol", "short"}

\* lines 58-63 with the handler dropped: the exception reaches the caller
download_file_uncaught(outcome) ==
    IF outcome = "completed" THEN "true" ELSE "raise"

\* lines 58-63: True after urlretrieve() returned, False after any Exception
download_file(outcome) ==
    IF outcome = "completed" THEN "true" ELSE "false"

\* line 145: what download_and_extract_project sees of the fetch
Fetches == {IF download_file(o) = "true" THEN "ok" ELSE "failed" : o \in Transfers}

\* download_and_extract_project() as it would be with the makedirs of line
\* 148 ahead of the fetch
DownloadProjectMakedirsFirst ==
    /\ pc = "download_and_extract_project"
    /\ install' = [install EXCEPT !.exists = TRUE]
    /\ \E fetch \in Fetches :
          /\ scratch' = (run :> (IF fetch = "ok"
                                 THEN {FileNode(<<ZipName>>, <<"zip">>)} ELSE {}))
                        @@ scratch
          /\ mat' = [NoMaterialize EXCEPT
                       !.temp = run, !.fetch = fetch, !.before = install,
                       !.ret = IF fetch = "ok" THEN "none" ELSE "false"]
          /\ call' = [NoCall EXCEPT !.fn = "download_and_extract_project",
                                    !.fetch = fetch]
          /\ steps' = IF fetch = "ok" THEN Call("Materialize")
                      ELSE Return(Call("Materialize"), "Materialize")
          /\ pc' = IF fetch = "ok" THEN "extract_project"
                   ELSE main_after_materialize("false")
    /\ UNCHANGED <<run, admin, prompts, machine, given, raised,
                   exit>>

\* lines 138-145: mkdtemp, then the fetch of the archive into it
DownloadProject ==
    /\ pc = "download_and_extract_project"
    /\ \E fetch \in Fetches :
          /\ scratch' = (run :> (IF fetch = "ok"
                                 THEN {FileNode(<<ZipName>>, <<"zip">>)} ELSE {}))
                        @@ scratch
          /\ mat' = [NoMaterialize EXCEPT
                       !.temp = run, !.fetch = fetch, !.before = install,
                       !.ret = IF fetch = "ok" THEN "none" ELSE "false"]
          /\ call' = [NoCall EXCEPT !.fn = "download_and_extract_project",
                                    !.fetch = fetch]
          /\ steps' = IF fetch = "ok" THEN Call("Materialize")
                      ELSE Return(Call("Materialize"), "Materialize")
          /\ pc' = IF fetch = "ok" THEN "extract_project"
                   ELSE main_after_materialize("false")
    /\ UNCHANGED <<run, admin, prompts, machine, given, install, raised,
                   exit>>

\* line 160: the folder whose children are moved
extracted_dir(top) == Components(top)

\* lines 148-161: makedirs, open the zip, top_dir, extractall, listdir;
\* a zip that cannot be read and a folder that cannot be listed raise
ExtractProject ==
    /\ pc = "extract_project"
    /\ \E zip \in {"ok", "bad"} :
          LET top == top_dir(archive)
              tree == scratch[run] \cup extractall(archive)
              listed == zip = "ok" /\ IsDir(tree, extracted_dir(top))
          IN /\ install' = [install EXCEPT !.exists = TRUE]
             /\ scratch' = IF zip = "ok" THEN [scratch EXCEPT ![run] = tree]
                           ELSE scratch
             /\ mat' = IF listed
                       THEN [mat EXCEPT !.top = top,
                                        !.todo = listdir(tree, extracted_dir(top))]
                       ELSE [mat EXCEPT !.ret = "raised"]
             /\ pc' = IF listed THEN "move_items" ELSE "except"
             /\ raised' = IF listed THEN raised ELSE "Materialize"
    /\ UNCHANGED <<run, admin, steps, prompts, machine, call, given,
                   exit>>

\* lines 166-170: the destination is removed, a folder with all it holds
remove_destination(tree, dest) ==
    IF Exists(tree, dest) THEN Remove(tree, dest) ELSE tree

\* lines 162-173 for one item of the listing, in the order listdir gives;
\* the move may raise, after the destination was removed
MoveItem ==
    /\ pc = "move_items"
    /\ mat.todo # {}
    /\ \E item \in mat.todo, fails \in {"no", "move"} :
          LET source == Append(extracted_dir(mat.top), item)
              dest == <<item>>
              cleared == remove_destination(install.tree, dest)
          IN /\ install' = [install EXCEPT !.tree =
                              CASE fails = "no" ->
                                     shutil_move(cleared, scratch[run], source, dest)
                                [] OTHER -> cleared]
             /\ scratch' = IF fails = "no"
                           THEN [scratch EXCEPT ![run] = Remove(@, source)]
                           ELSE scratch
             /\ mat' = IF fails = "no"
                       THEN [mat EXCEPT !.todo = @ \ {item},
                                        !.moved = @ \cup {item}]
                       ELSE [mat EXCEPT !.ret = "raised"]
             /\ pc' = IF fails = "no" THEN "move_items" ELSE "except"
             /\ raised' = IF fails = "no" THEN raised ELSE "Materialize"
    /\ UNCHANGED <<run, admin, steps, prompts, machine, call, given,
                   exit>>

\* lines 175-178: rmtree of the scratch directory, return True
CleanUp ==
    /\ pc = "move_items"
    /\ mat.todo = {}
    /\ \E rmtree \in {"ok", "raise"} :
          /\ scratch' = IF rmtree = "ok"
                        THEN [i \in DOMAIN scratch \ {run} |-> scratch[i]]
                        ELSE scratch
          /\ mat' = [mat EXCEPT !.ret = IF rmtree = "ok" THEN "true" ELSE "raised"]
          /\ steps' = IF rmtree = "ok" THEN Return(steps, "Materialize") ELSE steps
          /\ pc' = IF rmtree = "ok" THEN main_after_materialize("true") ELSE "except"
          /\ raised' = IF rmtree = "ok" THEN raised ELSE "Materialize"
    /\ UNCHANGED <<run, admin, prompts, machine, call, given, install,
                   exit>>

\* line 299: input("Press Enter to exit...") and return
InputAbort ==
    /\ pc = "input_abort"
    /\ prompts' = Append(prompts, "abort_exit")
    /\ pc' = "terminated"
    /\ exit' = "aborted"
    /\ UNCHANGED <<run, admin, steps, machine, call, given, files,
                   raised>>

(***************************************************************************)
(* Provisioner, script generator, activator and the end of main()          *)
(***************************************************************************)
\* env_name, line 184 ("code_execution_api")
EnvName == <<"c","e","a">>
\* names of other environments: "base", and one that contains env_name
BaseEnv == <<"b","a","s","e">>
LongerEnv == <<"c","e","a","2">>

NewLine == "\n"

\* the stdout of `conda env list`: a line for each environment
RECURSIVE env_list_stdout(_)
env_list_stdout(names) ==
    IF names = {} THEN << >>
    ELSE LET n == CHOOSE x \in names : TRUE
         IN n \o <<NewLine>> \o env_list_stdout(names \ {n})

\* the environments `conda env list` can print; nothing when conda cannot run
EnvListings ==
    IF condaOk
    THEN {{BaseEnv}, {BaseEnv, EnvName}, {BaseEnv, LongerEnv}}
    ELSE {{}}

\* Python's `sub in text` for strings
IsSubstring(sub, text) ==
    \E i \in 0..(Len(text) - Len(sub)) : SubSeq(text, i + 1, i + Len(sub)) = sub

\* create_conda_environment(): the conda commands it runs, lines 187-200
create_conda_environment(names) ==
    IF IsSubstring(EnvName, env_list_stdout(names))
    THEN <<"env list", "env update", "run pip install">>
    ELSE <<"env list", "create", "run pip install">>

\* every command goes through the shell and no exit status is looked at;
\* returns True
CreateCondaEnvironment ==
    /\ pc = "create_conda_environment"
    /\ \E names \in EnvListings, status \in {"zero", "nonzero"} :
          call' = [NoCall EXCEPT !.fn = "create_conda_environment",
                                 !.listed = names,
                                 !.cmds = create_conda_environment(names),
                                 !.exitcode = status,
                                 !.ret = "true"]
    /\ steps' = Return(Call("Provision"), "Provision")
    /\ pc' = "create_startup_scripts"
    /\ UNCHANGED <<run, admin, prompts, machine, given, files,
                   raised, exit>>

StartBat == <<"s","t","a","r","t","_","a","p","i",".","b","a","t">>
StopBat == <<"s","t","o","p","_","a","p","i",".","b","a","t">>

\* lines 212-218, INSTALL_DIR being fixed
StartScript ==
    <<"@echo off", "echo Starting Code Execution API...", "cd /d INSTALL_DIR",
      "docker-compose up -d", "echo API is running at http://localhost:8000",
      "start http://localhost:8000", "pause">>

\* lines 223-228
StopScript ==
    <<"@echo off", "echo Stopping Code Execution API...", "cd /d INSTALL_DIR",
      "docker-compose down", "echo API has been stopped.", "pause">>

\* the lines of the file at path, none when there is no such file
DataAt(tree, path) ==
    IF \E n \in tree : n.path = path /\ n.kind = "file"
    THEN (CHOOSE n \in tree : n.path = path /\ n.kind = "file").data
    ELSE << >>

\* the script generator as it would be if the files were opened with "a"
AppendScripts(tree) ==
    Remove(Remove(tree, <<StartBat>>), <<StopBat>>)
        \cup {FileNode(<<StartBat>>, DataAt(tree, <<StartBat>>) \o StartScript),
              FileNode(<<StopBat>>, DataAt(tree, <<StopBat>>) \o StopScript)}

\* lines 209-228: both scripts are opened with "w" and written
WriteScripts(tree) ==
    Remove(Remove(tree, <<StartBat>>), <<StopBat>>)
        \cup {FileNode(<<StartBat>>, StartScript), FileNode(<<StopBat>>, StopScript)}

\* lines 244-249: cscript is run and its exit status not looked at; when it
\* cannot be launched subprocess.run raises
create_startup_scripts(cscript) ==
    IF cscript = "raise" THEN "raise" ELSE "return_true"

\* lines 234-245: create_shortcut.vbs is written, and removed once cscript
\* has run
vbs_after(cscript) == cscript = "raise"

\* create_startup_scripts(): the scripts, then the shortcut through cscript
CreateStartupScripts ==
    /\ pc = "create_startup_scripts"
    /\ \E cscript \in {"ran", "failed", "raise"} :
          LET does == create_startup_scripts(cscript) IN
          /\ install' = [install EXCEPT !.tree = WriteScripts(@)]
          /\ vbs' = vbs_after(cscript)
          /\ call' = Met("create_startup_scripts", cscript,
                         IF does = "raise" THEN "raise" ELSE "true")
          /\ steps' = IF does = "raise" THEN Call("GenerateScripts")
                      ELSE Return(Call("GenerateScripts"), "GenerateScripts")
          /\ pc' = IF does = "raise" THEN "except" ELSE "start_docker_services"
          /\ raised' = IF does = "raise" THEN "GenerateScripts" ELSE raised
    /\ UNCHANGED <<run, admin, prompts, dockerKey, condaOk, given,
                   scratch, mat, exit>>

\* start_docker_services() as it would be if it checked the exit statuses
start_docker_services_checked(status) ==
    IF status = "zero" THEN "return_true" ELSE "raise"

\* start_docker_services(): the exit statuses of build and up are not
\* looked at
start_docker_services(status) == "return_true"

\* chdir, then build and up through the shell
StartDockerServices ==
    /\ pc = "start_docker_services"
    /\ \E status \in {"zero", "nonzero"} :
          LET does == start_docker_services(status) IN
          /\ call' = [NoCall EXCEPT !.fn = "start_docker_services",
                                    !.exitcode = status,
                                    !.ret = IF does = "raise" THEN "raise" ELSE "true"]
          /\ steps' = IF does = "raise" THEN Call("Activate")
                      ELSE Return(Call("Activate"), "Activate")
          /\ pc' = IF does = "raise" THEN "except" ELSE "installation_complete"
          /\ raised' = IF does = "raise" THEN "Activate" ELSE raised
    /\ UNCHANGED <<run, admin, prompts, machine, given, files, exit>>

\* lines 311-317: the header "Installation Complete", then the question
InstallationComplete ==
    /\ pc = "installation_complete"
    /\ steps' = Call("Complete")
    /\ pc' = "input_open_browser"
    /\ UNCHANGED <<run, admin, prompts, machine, call, given, files,
                   raised, exit>>

\* lines 317-319: the answer, and the browser when it is 'y'
InputOpenBrowser ==
    /\ pc = "input_open_browser"
    /\ \E answer \in {"y", "n"} :
          prompts' = Append(prompts, "open_browser")
    /\ pc' = "input_exit"
    /\ UNCHANGED <<run, admin, steps, machine, call, given, files,
                   raised, exit>>

\* line 321: input("Press Enter to exit the installer...")
InputExit ==
    /\ pc = "input_exit"
    /\ prompts' = Append(prompts, "final_exit")
    /\ steps' = Return(steps, "Complete")
    /\ pc' = "terminated"
    /\ exit' = "complete"
    /\ UNCHANGED <<run, admin, machine, call, given, files, raised>>

\* the handler as it would be if it undid what the materializer had applied
InputExceptRollback ==
    /\ pc = "except"
    /\ prompts' = Append(prompts, "error_exit")
    /\ pc' = "terminated"
    /\ exit' = "error"
    /\ install' = IF mat.temp # 0 THEN mat.before ELSE install
    /\ UNCHANGED <<run, admin, steps, machine, call, given, scratch, mat,
                   raised>>

\* lines 326-328: the handler has printed the error and waits at input()
InputExcept ==
    /\ pc = "except"
    /\ prompts' = Append(prompts, "error_exit")
    /\ pc' = "terminated"
    /\ exit' = "error"
    /\ UNCHANGED <<run, admin, steps, machine, call, given, files,
                   raised>>

\* the installer is launched again (by the elevation request or by the
\* operator) on the machine as the last launch left it
Relaunch ==
    /\ pc = "terminated"
    /\ run < MaxRuns
    /\ run' = run + 1
    /\ pc' = "main"
    /\ admin' = "unknown"
    /\ steps' = << >>
    /\ prompts' = << >>
    /\ call' = NoCall
    /\ mat' = NoMaterialize
    /\ raised' = "none"
    /\ exit' = "none"
    /\ UNCHANGED <<machine, given, scratch, install>>

Next ==
    \/ IsAdmin
    \/ RestartAsAdmin
    \/ InputBegin
    \/ CheckDockerInstalled
    \/ InstallDocker
    \/ InputDockerManual
    \/ CheckCondaInstalled
    \/ InstallMiniconda
    \/ InputCondaManual
    \/ DownloadProject
    \/ ExtractProject
    \/ MoveItem
    \/ CleanUp
    \/ InputAbort
    \/ CreateCondaEnvironment
    \/ CreateStartupScripts
    \/ StartDockerServices
    \/ InstallationComplete
    \/ InputOpenBrowser
    \/ InputExit
    \/ InputExcept
    \/ Relaunch

Spec == Init /\ [][Next]_vars

(***************************************************************************)
(* download_file (lines 42-63), one call followed block by block.          *)
(* urlretrieve opens the URL and the destination, calls the hook once      *)
(* before the first read and once after every block, and raises            *)
(* ContentTooShortError when fewer bytes came than Content-Length said.    *)
(***************************************************************************)
MaxTotal == 4
MaxBlock == 3

\* totalsize handed to the hook when the server sent no Content-Length
UnknownSize == 0 - 1

\* lines 46-55: one call of the hook; percent is kept as the fraction num/den
report_progress(blocknum, blocksize, totalsize) ==
    LET readsofar == blocknum * blocksize
    IN IF totalsize > 0
       THEN [kind |-> "percent", num |-> readsofar * 100, den |-> totalsize,
             newline |-> readsofar >= totalsize]
       ELSE [kind |-> "bytes", num |-> readsofar, den |-> 1, newline |-> FALSE]

\* a hook call together with the bytes really read when it was made
Report(d) ==
    [out |-> report_progress(d.blocknum, d.blocksize, d.total), read |-> d.read]

\* the sizes of one call: announced total, block size, bytes the server sends
InitFetch ==
    /\ pc = "download_file"
    /\ run = 1
    /\ admin = "yes"
    /\ steps = << >>
    /\ prompts = << >>
    /\ dockerKey = FALSE
    /\ condaOk = FALSE
    /\ vbs = FALSE
    /\ call = NoCall
    /\ archive = GitHubArchive
    /\ scratch = << >>
    /\ install = NoInstall
    /\ mat = NoMaterialize
    /\ raised = "none"
    /\ exit = "none"
    /\ \E total \in {UnknownSize} \cup (0..MaxTotal), bs \in 1..MaxBlock,
          sent \in 0..MaxTotal :
          /\ total >= 0 => sent <= total
          /\ dl = [NoDownload EXCEPT !.total = total, !.blocksize = bs,
                                     !.sent = sent]

\* the call has ended with this outcome of urlretrieve
Ended(outcome) ==
    [dl EXCEPT !.state = "done", !.outcome = outcome,
               !.ret = download_file(outcome)]

\* line 58: urlretrieve opens the URL and the destination file, then makes
\* the first hook call with block number 0
OpenTransfer ==
    /\ pc = "download_file"
    /\ dl.state = "idle"
    /\ \E opened \in {"opened", "network", "filesystem", "protocol"} :
          dl' = IF opened = "opened"
                THEN LET d == [dl EXCEPT !.state = "transfer",
                                         !.attempts = @ + 1]
                     IN [d EXCEPT !.reports = <<Report(d)>>]
                ELSE [Ended(opened) EXCEPT !.attempts = @ + 1]
    /\ UNCHANGED <<pc, run, admin, steps, prompts, machine, call, archive,
                   files, raised, exit>>

\* line 58: one block is read and written, then the hook is called; the
\* connection or the disk may fail instead
ReadBlock ==
    /\ pc = "download_file"
    /\ dl.state = "transfer"
    /\ dl.read < dl.sent
    /\ \E io \in {"ok", "network", "filesystem"} :
          dl' = IF io = "ok"
                THEN LET left == dl.sent - dl.read
                         block == IF left < dl.blocksize THEN left
                                  ELSE dl.blocksize
                         d == [dl EXCEPT !.read = @ + block,
                                         !.blocknum = @ + 1]
                     IN [d EXCEPT !.reports = Append(@, Report(d))]
                ELSE Ended(io)
    /\ UNCHANGED <<pc, run, admin, steps, prompts, machine, call, archive,
                   files, raised, exit>>

\* lines 58-63: the empty read ends the loop; fewer bytes than announced
\* raise ContentTooShortError
EndTransfer ==
    /\ pc = "download_file"
    /\ dl.state = "transfer"
    /\ dl.read = dl.sent
    /\ dl' = IF dl.total >= 0 /\ dl.read < dl.total THEN Ended("short")
             ELSE Ended("completed")
    /\ UNCHANGED <<pc, run, admin, steps, prompts, machine, call, archive,
                   files, raised, exit>>

NextFetch ==
    \/ OpenTransfer
    \/ ReadBlock
    \/ EndTransfer

SpecFetch == InitFetch /\ [][NextFetch]_vars

(***************************************************************************)
(* Properties                                                              *)
(***************************************************************************)
Last(seq) == seq[Len(seq)]

\* the steps called so far in this launch
StepsCalled == {steps[i].step : i \in 1..Len(steps)}

\* the input() prompts at which the program waits before it ends
ExitPrompts == {"final_exit", "abort_exit", "error_exit"}

MaterializeFailed == mat.ret \in {"false", "raised"}

\* C1: once the materializer has failed (the fetch of the archive failed, or
\* unpacking or moving raised), the launch has called and will call neither
\* the provisioner, nor the script generator, nor the activator, never shows
\* "Installation Complete", and only waits for the last keypress or has ended
C1_MaterializationFatality ==
    MaterializeFailed =>
        /\ StepsCalled \cap {"Provision", "GenerateScripts", "Activate", "Complete"} = {}
        /\ pc \in {"input_abort", "except", "terminated"}
        /\ exit \in {"none", "aborted", "error"}

\* a launch that ended after the fetch of the archive failed
C1_Witness ==
    /\ pc = "terminated"
    /\ mat.fetch = "failed"
    /\ mat.ret = "false"
    /\ exit = "aborted"

WorkflowSteps ==
    <<"ProbeRuntime", "RemediateRuntime", "ProbeEnvManager", "RemediateEnvManager",
      "Materialize", "Provision", "GenerateScripts", "Activate", "Complete">>

Rank(step) == CHOOSE k \in 1..Len(WorkflowSteps) : WorkflowSteps[k] = step

\* the steps every launch goes through; the remediations are conditional
Mandatory == {"ProbeRuntime", "ProbeEnvManager", "Materialize", "Provision",
              "GenerateScripts", "Activate", "Complete"}

\* C2: in the record of a launch every step is called at most once and in the
\* order of the workflow, no unconditional step is skipped before a later one
\* is called, and a step is called only after the one before it has returned
C2_LinearOrder ==
    /\ \A i, j \in 1..Len(steps) :
          (i < j /\ steps[i].ev = "call" /\ steps[j].ev = "call")
             => Rank(steps[i].step) < Rank(steps[j].step)
    /\ \A i \in 1..Len(steps) :
          /\ steps[i].ev = "call" =>
                /\ i < Len(steps) => steps[i + 1] = [step |-> steps[i].step, ev |-> "return"]
                /\ \A m \in Mandatory :
                      Rank(m) < Rank(steps[i].step) =>
                         \E k \in 1..(i - 1) : steps[k] = [step |-> m, ev |-> "call"]
          /\ steps[i].ev = "return" =>
                i > 1 /\ steps[i - 1] = [step |-> steps[i].step, ev |-> "call"]

\* a launch that went through all nine steps, both remediations included
C2_Witness ==
    /\ pc = "terminated"
    /\ exit = "complete"
    /\ Len(steps) = 2 * Len(WorkflowSteps)

\* the last call is a remediation whose fetch succeeded and whose installer
\* exited non-zero
InstallerFailed(fn) ==
    call.fn = fn /\ call.fetch = "ok" /\ call.exitcode = "nonzero"

\* C3: a remediation whose installer exits non-zero waits at its input()
\* prompt, returns False only once the operator has acknowledged, and main
\* then is at the next step of the workflow, not in the handler of failures
C3_RemediationGating ==
    /\ InstallerFailed("install_docker") =>
          \/ call.ret = "none" /\ pc = "input_docker_manual"
          \/ /\ call.ret = "false"
             /\ Last(prompts) = "docker_manual"
             /\ pc = "check_conda_installed"
             /\ raised = "none"
    /\ InstallerFailed("install_miniconda") =>
          \/ call.ret = "none" /\ pc = "input_conda_manual"
          \/ /\ call.ret = "false"
             /\ Last(prompts) = "conda_manual"
             /\ pc = "download_and_extract_project"
             /\ raised = "none"

\* the Docker installer failed, the operator acknowledged, main goes on
C3_Witness ==
    /\ InstallerFailed("install_docker")
    /\ call.ret = "false"
    /\ pc = "check_conda_installed"

\* the last call is a remediation whose fetch of the installer failed
InstallerFetchFailed(fn) == call.fn = fn /\ call.fetch = "failed"

\* C4: a remediation whose fetch fails runs no installer, returns False, and
\* main goes on to the next step after the operator was asked to install by
\* hand and acknowledged
C4_FetchFailureManualBranch ==
    /\ InstallerFetchFailed("install_docker") =>
          /\ call.exitcode = "none"
          /\ call.ret = "false"
          /\ pc = "check_conda_installed"
          /\ Last(prompts) = "docker_manual"
    /\ InstallerFetchFailed("install_miniconda") =>
          /\ call.exitcode = "none"
          /\ call.ret = "false"
          /\ pc = "download_and_extract_project"
          /\ Last(prompts) = "conda_manual"

\* C5: once the materializer has ended, by a return or by an exception, the
\* scratch directory it made no longer exists
C5_ScratchRemoved ==
    mat.ret # "none" => mat.temp \notin DOMAIN scratch

\* the names directly under the root folder of the archive
ArchiveChildren == listdir(ArchiveRoot(archive), << >>)

\* every child of the archive's root is installed with the archive's content
HoldsArchive(tree) ==
    \A c \in ArchiveChildren :
        Subtree(tree, <<c>>) = Subtree(ArchiveRoot(archive), <<c>>)

\* the materializer has been called and nothing else has written to the
\* installation directory since
OnlyMaterialized == mat.temp # 0 /\ "GenerateScripts" \notin StepsCalled

\* C6: when the materializer has returned True, every top-level child of the
\* archive's root is in the installation directory with exactly the archive's
\* content, and a directory that held that already (the result of an earlier
\* materialization of the same archive) is left as it was
C6_IdempotentMaterialization ==
    (mat.ret = "true" /\ OnlyMaterialized) =>
        /\ HoldsArchive(install.tree)
        /\ HoldsArchive(mat.before.tree) => install.tree = mat.before.tree

\* C7: during and after materialization the installation directory, if it
\* existed, still exists, and every entry directly under it whose name is not
\* that of a top-level child of the archive's root is as it was before
C7_OutsideArchivePreserved ==
    OnlyMaterialized =>
        /\ mat.before.exists => install.exists
        /\ \A n \in listdir(mat.before.tree, << >>) \ ArchiveChildren :
              Subtree(install.tree, <<n>>) = Subtree(mat.before.tree, <<n>>)

\* C8: a probe whose lookup fails (the registry lookup errors; conda cannot be
\* run or exits non-zero) returns False, and main goes on to the remediation:
\* no exception reaches the handler
C8_ProbeFailClosed ==
    /\ (call.fn = "check_docker_installed" /\ call.met = "error") =>
          call.ret = "false" /\ pc = "install_docker" /\ raised = "none"
    /\ (call.fn = "check_conda_installed" /\ call.met \in {"nonzero", "raise"}) =>
          call.ret = "false" /\ pc = "install_miniconda" /\ raised = "none"

\* the registry lookup errors on a machine where Docker Desktop is installed
C8_Witness ==
    /\ call.fn = "check_docker_installed"
    /\ call.met = "error"
    /\ dockerKey
    /\ pc = "install_docker"

\* C9: a process for which is_admin() is false (the check said no, or raised)
\* runs no step of the workflow, touches no scratch directory, and is either
\* about to request the relaunch or past that request: ended, or in the
\* handler when the request itself raised
C9_NoStepUnprivileged ==
    admin \in {"no", "error"} =>
        /\ steps = << >>
        /\ mat.temp = 0
        /\ pc \in {"restart_as_admin", "terminated", "except"}
        /\ pc # "restart_as_admin" => call.fn = "restart_as_admin"
        /\ pc = "terminated" /\ exit = "sys_exit" => prompts = << >>

\* the elevation check raised, the relaunch was requested, the process ended
C9_Witness ==
    /\ admin = "error"
    /\ pc = "terminated"
    /\ exit = "sys_exit"
    /\ call.met = "launched"

\* C10 as claimed: wherever the program ends, the last thing it did was to
\* wait for a keypress at one of the prompts that precede the exit
C10_AlwaysPauses ==
    pc = "terminated" => prompts # << >> /\ Last(prompts) \in ExitPrompts

\* C10 as amended: a process that ends otherwise than through the sys.exit(0)
\* of restart_as_admin() waited for a keypress last; the unprivileged process
\* that leaves through sys.exit(0) waited for none
C10_PausesUnlessRelaunching ==
    pc = "terminated" =>
        IF exit = "sys_exit"
        THEN admin \in {"no", "error"} /\ prompts = << >>
        ELSE prompts # << >> /\ Last(prompts) \in ExitPrompts

\* launches that ended by an uncaught failure of a workflow step
C10_Witness ==
    /\ pc = "terminated"
    /\ exit = "error"
    /\ raised = "Materialize"
    /\ Last(prompts) = "error_exit"

\* how often a prompt was acknowledged in this launch
Count(prompt) == Cardinality({i \in 1..Len(prompts) : prompts[i] = prompt})

\* what holds once an exception has left main()
CaughtAtTopLevel ==
    raised # "none" =>
        /\ pc \in {"except", "terminated"}
        /\ raised # "restart_as_admin" =>
              Last(steps) = [step |-> raised, ev |-> "call"]
        /\ pc = "except" => exit = "none" /\ Count("error_exit") = 0
        /\ pc = "terminated" =>
              /\ exit = "error"
              /\ Last(prompts) = "error_exit"
              /\ Count("error_exit") = 1
              /\ Count("final_exit") = 0 /\ Count("abort_exit") = 0

\* C11: an exception that leaves a workflow step is caught by the handler of
\* __main__: the step that raised stays the last one called, the process
\* waits once at the handler's input() and ends, and from the raise on the
\* installation directory and the scratch directories stay as they are
C11_UncaughtFailure ==
    /\ [](CaughtAtTopLevel)
    /\ [][raised # "none" => (install' = install /\ scratch' = scratch)]_vars

\* the move of an item raised after other items were installed, and the
\* process has ended through the handler
C11_Witness ==
    /\ raised = "Materialize"
    /\ mat.moved # {}
    /\ pc = "terminated"
    /\ exit = "error"

FailedQuietly(fn) ==
    /\ call.fn = fn
    /\ call.fetch = "failed" \/ call.exitcode = "nonzero" \/ call.met = "failed"

\* where main is once the step it called has returned
Advanced(next) == raised = "none" /\ pc = next

\* a failure that is not an exception stops nothing
QuietFailureAdvances ==
    /\ FailedQuietly("install_docker") =>
          \/ call.ret = "none" /\ pc = "input_docker_manual"
          \/ call.ret = "false" /\ Advanced("check_conda_installed")
    /\ FailedQuietly("install_miniconda") =>
          \/ call.ret = "none" /\ pc = "input_conda_manual"
          \/ call.ret = "false" /\ Advanced("download_and_extract_project")
    /\ FailedQuietly("create_conda_environment") =>
          Advanced("create_startup_scripts")
    /\ FailedQuietly("create_startup_scripts") =>
          Advanced("start_docker_services")
    /\ FailedQuietly("start_docker_services") =>
          /\ raised = "none"
          /\ pc \in {"installation_complete", "input_open_browser", "input_exit",
                     "terminated"}
          /\ pc = "terminated" => exit = "complete"

TransferCompleted ==
    /\ Len(dl.reports) >= 1
    /\ dl.read = dl.sent
    /\ dl.total >= 0 => dl.read = dl.total

\* C13: a download_file call makes one transfer attempt, never raises,
\* returns true only when the transfer completed and false after a
\* network, filesystem or protocol failure.
C13_SingleAttemptNeverRaises ==
    /\ dl.attempts <= 1
    /\ dl.ret # "raise"
    /\ dl.state # "idle" => dl.attempts = 1
    /\ dl.state # "done" => dl.ret = "none"
    /\ dl.state = "done" =>
          /\ dl.ret \in {"true", "false"}
          /\ dl.ret = "true" <=> (dl.outcome = "completed" /\ TransferCompleted)
          /\ dl.outcome \in {"network", "filesystem", "protocol", "short"}
                => dl.ret = "false"

C13_Witness ==
    /\ dl.state = "done"
    /\ dl.outcome = "short"
    /\ dl.read > 0
    /\ dl.ret = "false"

\* C14: with a known total T > 0 every progress report shows R * 100 / T for
\* the R bytes read so far and never more than 100; with an unknown total
\* the report is a byte count.
C14_PercentOfBytesRead ==
    \A i \in 1..Len(dl.reports) :
       LET r == dl.reports[i]
       IN IF dl.total > 0
          THEN /\ r.out.kind = "percent"
               /\ r.out.num * dl.total = r.read * 100 * r.out.den
               /\ r.out.num <= 100 * r.out.den
          ELSE r.out.kind = "bytes"

\* what the tree holds at the paths of the two scripts
ScriptNodes(tree) == {n \in tree : n.path \in {<<StartBat>>, <<StopBat>>}}

Generated == {FileNode(<<StartBat>>, StartScript), FileNode(<<StopBat>>, StopScript)}

\* C15: the script generator leaves start_api.bat and stop_api.bat with
\* exactly the generated lines, whatever the two files held before, and
\* touches nothing else in the installation folder.
C15_ScriptsOverwritten ==
    [][pc = "create_startup_scripts" =>
          /\ ScriptNodes(install.tree)' = Generated
          /\ (install.tree \ ScriptNodes(install.tree))
               = (install.tree \ ScriptNodes(install.tree))']_vars

C15_Witness ==
    /\ call.fn = "create_startup_scripts"
    /\ DataAt(mat.before.tree, <<StartBat>>) # << >>
    /\ ScriptNodes(install.tree) = Generated

\* how often the launch has called a step
Calls(step) ==
    Cardinality({i \in 1..Len(steps) : steps[i] = [step |-> step, ev |-> "call"]})

\* the probe at probePc is followed by the remediation at installPc exactly
\* when it returned false, and nothing else leads to the remediation
Gated(probePc, installPc) ==
    /\ pc = probePc => (pc' = installPc <=> call'.ret = "false")
    /\ pc' = installPc => pc = probePc
    /\ pc' = probePc => pc # installPc

\* C16: a launch probes each prerequisite once, calls the remediation of a
\* prerequisite exactly when its probe returned not-installed, right after
\* that probe, and neither probes nor remediates a second time.
C16_ProbeOnceRemediateIffAbsent ==
    /\ [](/\ \A step \in {"ProbeRuntime", "RemediateRuntime", "ProbeEnvManager",
                           "RemediateEnvManager"} : Calls(step) <= 1
          /\ exit = "complete" =>
                Calls("ProbeRuntime") = 1 /\ Calls("ProbeEnvManager") = 1
          /\ \A i \in 1..Len(steps) :
                /\ steps[i] = [step |-> "RemediateRuntime", ev |-> "call"] =>
                      i > 1 /\ steps[i - 1] = [step |-> "ProbeRuntime", ev |-> "return"]
                /\ steps[i] = [step |-> "RemediateEnvManager", ev |-> "call"] =>
                      i > 1 /\ steps[i - 1] = [step |-> "ProbeEnvManager", ev |-> "return"])
    /\ [][/\ Gated("check_docker_installed", "install_docker")
          /\ Gated("check_conda_installed", "install_miniconda")
          /\ pc = "install_docker" => Calls("RemediateRuntime")' = 1
          /\ pc = "install_miniconda" => Calls("RemediateEnvManager")' = 1]_vars

C16_Witness ==
    /\ exit = "complete"
    /\ Calls("RemediateRuntime") = 0
    /\ Calls("RemediateEnvManager") = 1

\* the conda commands the last call has run
Ran == {call.cmds[i] : i \in 1..Len(call.cmds)}

\* C17: the provisioner runs the update exactly when an environment named
\* like the configured one is listed and the creation exactly when none is,
\* never both, and never removes an environment.
C17_UpdateIffNameListed ==
    call.fn = "create_conda_environment" =>
       /\ "env update" \in Ran <=> EnvName \in call.listed
       /\ "create" \in Ran <=> EnvName \notin call.listed
       /\ ~("env update" \in Ran /\ "create" \in Ran)
       /\ "env remove" \notin Ran

\* the materializer has listed the folder it takes for the archive's root
Listed == pc = "move_items" \/ mat.todo \cup mat.moved # {}

\* C18: for an archive whose entries all lie under one root folder, the
\* materializer takes that folder for the root, moves exactly the root's
\* children, and moves neither the zip file nor the root folder itself.
C18_RootIdentified ==
    Listed =>
       /\ extracted_dir(mat.top) = <<Root>>
       /\ mat.todo \cup mat.moved = ArchiveChildren
       /\ ZipName \notin mat.todo \cup mat.moved
       /\ Root \notin mat.todo \cup mat.moved

\* C19: once create_startup_scripts has ended, by returning or by raising,
\* create_shortcut.vbs is no longer in the temporary directory.
C19_TransientScriptRemoved ==
    (call.fn = "create_startup_scripts" /\ call.ret # "none") => ~vbs

\* C20: when the fetch of the archive has failed, the installation folder
\* is as the materializer found it: not created when it was absent, and
\* with every entry as it was.
C20_FetchFailureLeavesInstall ==
    /\ mat.fetch = "failed" => install = mat.before
    /\ [][(pc = "download_and_extract_project" /\ mat'.fetch = "failed")
            => install' = install]_vars

C20_Witness ==
    /\ mat.fetch = "failed"
    /\ ~install.exists
    /\ pc = "input_abort"
====
